---- MODULE Spec2Model ----
(***************************************************************************)
(* Model of the DCA contract-compliance scanner:                           *)
(*   api_server.py  the chunker (split_contract_text), the analyzer        *)
(*                  (analyze_contract_core) and the POST /analyze handler  *)
(*   app.py         the Streamlit client's main flow                       *)
(*                                                                         *)
(* Text is a sequence of one-character strings, so that splitting,         *)
(* stripping and concatenation are computed and not assumed.               *)
(***************************************************************************)
EXTENDS Integers, Sequences, FiniteSets, TLC

\* ------------------------------------------------------------------------
\* Sizes.  chunk_size and chunk_overlap stand for the 1500 and 150 of
\* api_server.py:79-80, scaled down so that documents around the limit can be
\* enumerated; the splitting algorithm is the same for every value.
chunk_size == 4

chunk_overlap == 1

MaxDocLen == 6

MaxFindings == 2

MaxRequests == 2

MaxPages == 2

\* The characters documents are made of: a letter, and the characters the
\* configured separators are built from.  " " and "\n" are whitespace.
Alphabet == {"a", " ", "\n", "."}

Whitespace == {" ", "\n"}

\* separators=["\n\n", "\n", ".", " "]
separators == << <<"\n", "\n">>, <<"\n">>, <<".">>, <<" ">> >>

\* ------------------------------------------------------------------------
\* Text helpers (Python str operations).

RECURSIVE Concat(_)
\* "".join(parts)
Concat(parts) ==
    IF parts = <<>> THEN <<>> ELSE Head(parts) \o Concat(Tail(parts))

\* text[i:j] with 1-based inclusive bounds; empty when j < i
Slice(text, i, j) == [k \in 1..(j - i + 1) |-> text[i + k - 1]]

RECURSIVE LStrip(_)
LStrip(text) ==
    IF text # <<>> /\ Head(text) \in Whitespace THEN LStrip(Tail(text)) ELSE text

RECURSIVE RStrip(_)
RStrip(text) ==
    IF text # <<>> /\ text[Len(text)] \in Whitespace
    THEN RStrip(Slice(text, 1, Len(text) - 1))
    ELSE text

\* str.strip()
Strip(text) == RStrip(LStrip(text))

\* whether sep occurs in text at position i
MatchAt(text, sep, i) ==
    /\ i + Len(sep) - 1 <= Len(text)
    /\ \A k \in 1..Len(sep) : text[i + k - 1] = sep[k]

\* re.search(re.escape(sep), text)
Contains(text, sep) == \E i \in 1..Len(text) : MatchAt(text, sep, i)

RECURSIVE Matches(_, _, _)
\* start positions of the leftmost non-overlapping occurrences of sep, from i on
Matches(text, sep, i) ==
    IF i + Len(sep) - 1 > Len(text) THEN <<>>
    ELSE IF MatchAt(text, sep, i)
         THEN <<i>> \o Matches(text, sep, i + Len(sep))
         ELSE Matches(text, sep, i + 1)

\* _split_text_with_regex(text, separator, keep_separator=True): the text before
\* the first separator, then each separator with the text that follows it; empty
\* pieces dropped.
split_text_with_regex(text, sep) ==
    LET m == Matches(text, sep, 1)
        first == IF m = <<>> THEN text ELSE Slice(text, 1, m[1] - 1)
        rest == [k \in 1..Len(m) |->
                    Slice(text, m[k], IF k = Len(m) THEN Len(text) ELSE m[k + 1] - 1)]
    IN  SelectSeq(<<first>> \o rest, LAMBDA s : s # <<>>)

\* ------------------------------------------------------------------------
\* RecursiveCharacterTextSplitter(chunk_size, chunk_overlap, separators), as
\* configured by split_contract_text.  keep_separator and strip_whitespace have
\* their default, True: pieces keep their separator, so pieces are merged with
\* the empty string between them (separator_len = 0).

\* _join_docs without the strip: "".join(docs)
join_docs_nostrip(docs) == Concat(docs)

\* _join_docs(docs, ""): the joined text, stripped; <<>> stands for None
join_docs(docs) == Strip(Concat(docs))

RECURSIVE PopOverlap(_, _, _)
\* the while loop of _merge_splits: drop pieces from the front of current_doc
\* until what is left fits the overlap and leaves room for the next piece
PopOverlap(current_doc, total, len) ==
    IF total > chunk_overlap \/ (total + len > chunk_size /\ total > 0)
    THEN PopOverlap(Tail(current_doc), total - Len(Head(current_doc)), len)
    ELSE [current_doc |-> current_doc, total |-> total]

\* docs.append(doc) if doc is not None
AppendDoc(docs, current_doc) ==
    LET doc == join_docs(current_doc)
    IN  IF doc = <<>> THEN docs ELSE Append(docs, doc)

RECURSIVE MergeLoop(_, _, _, _)
MergeLoop(splits, docs, current_doc, total) ==
    IF splits = <<>> THEN AppendDoc(docs, current_doc)
    ELSE LET d == Head(splits)
             len == Len(d)
             flush == total + len > chunk_size /\ Len(current_doc) > 0
             docs1 == IF flush THEN AppendDoc(docs, current_doc) ELSE docs
             kept == IF flush THEN PopOverlap(current_doc, total, len)
                     ELSE [current_doc |-> current_doc, total |-> total]
         IN  MergeLoop(Tail(splits), docs1, Append(kept.current_doc, d),
                       kept.total + len)

\* _merge_splits(splits, "")
merge_splits(splits) == MergeLoop(splits, <<>>, <<>>, 0)

\* the index of the first separator that occurs in the text, 0 when none does
FirstSeparator(text, seps) ==
    IF \E i \in 1..Len(seps) : Contains(text, seps[i])
    THEN CHOOSE i \in 1..Len(seps) :
            /\ Contains(text, seps[i])
            /\ \A j \in 1..(i - 1) : ~Contains(text, seps[j])
    ELSE 0

\* a piece that is too long and has no separator left to split it on is
\* emitted as it is: final_chunks.append(s)
KeepLongPiece(s) == <<s>>

RECURSIVE split_text(_, _)
RECURSIVE SplitLoop(_, _, _, _)
\* the for loop of _split_text over the pieces
SplitLoop(splits, new_separators, final_chunks, good_splits) ==
    IF splits = <<>>
    THEN IF good_splits # <<>> THEN final_chunks \o merge_splits(good_splits)
         ELSE final_chunks
    ELSE LET s == Head(splits)
         IN  IF Len(s) < chunk_size
             THEN SplitLoop(Tail(splits), new_separators, final_chunks,
                            Append(good_splits, s))
             ELSE LET merged == IF good_splits # <<>>
                                THEN final_chunks \o merge_splits(good_splits)
                                ELSE final_chunks
                      other == IF new_separators = <<>> THEN KeepLongPiece(s)
                               ELSE split_text(s, new_separators)
                  IN  SplitLoop(Tail(splits), new_separators, merged \o other, <<>>)

\* RecursiveCharacterTextSplitter._split_text(text, separators)
split_text(text, seps) ==
    LET i == FirstSeparator(text, seps)
        separator == IF i = 0 THEN seps[Len(seps)] ELSE seps[i]
        new_separators == IF i = 0 THEN <<>> ELSE SubSeq(seps, i + 1, Len(seps))
    IN  SplitLoop(split_text_with_regex(text, separator), new_separators, <<>>, <<>>)

\* split_contract_text(contract_text): the page_content of each Document
split_contract_text(contract_text) == split_text(contract_text, separators)

\* ------------------------------------------------------------------------
\* State.
VARIABLES
    \* the chunker on its own: a document and the chunks made of it
    document, chunks, split_done,
    \* api_server.py, process-wide
    VECTORSTORE, store_builds, served,
    \* api_server.py, the request being handled (the handler is an async def
    \* that never awaits: one request runs to completion before the next starts)
    \* (retrieved_rule_text is the rule of the chunk in hand: it is assigned
    \* before each use, and is blank between chunks)
    pc, contract_text, contract_chunks, chunk_index, retrieved_rule_text,
    all_flagged_clauses, response,
    \* what has been observed of the request being handled: the outbound calls
    \* issued, those not yet returned, each chunk's outcome, and the exception
    \* that left analyze_contract_core, if one did
    calls, inflight, outcome, raised,
    \* app.py, one run of main()
    uploaded_file, extracted_text, text_to_analyze, payload, display

chunker_vars == <<document, chunks, split_done>>

server_vars == <<VECTORSTORE, store_builds, served, pc, contract_text,
                 contract_chunks, chunk_index, retrieved_rule_text,
                 all_flagged_clauses, response, calls, inflight, outcome, raised>>

client_vars == <<uploaded_file, extracted_text, text_to_analyze, payload, display>>

vars == <<chunker_vars, server_vars, client_vars>>

\* SAMPLE_CONTRACT_TEXT: a triple-quoted literal that begins and ends with a
\* newline and is shorter than one chunk
SAMPLE_CONTRACT_TEXT == <<"\n", "a", "\n">>

NoText == <<>>

ChunkerIdle == document = NoText /\ chunks = <<>> /\ split_done = FALSE

ServerIdle ==
    /\ VECTORSTORE = {} /\ store_builds = 0 /\ served = 0 /\ pc = "off"
    /\ contract_text = NoText /\ contract_chunks = <<>> /\ chunk_index = 0
    /\ retrieved_rule_text = "" /\ all_flagged_clauses = <<>>
    /\ response = [status |-> 0]
    /\ calls = <<>> /\ inflight = {} /\ outcome = <<>> /\ raised = "none"

ClientIdle ==
    /\ uploaded_file = [present |-> FALSE, readable |-> FALSE, pages |-> <<>>]
    /\ extracted_text = [some |-> FALSE, text |-> <<>>]
    /\ text_to_analyze = NoText
    /\ payload = [some |-> FALSE, text |-> <<>>]
    /\ display = "none"

\* ------------------------------------------------------------------------
\* The chunker on its own: every document up to MaxDocLen characters.

Documents == UNION {[1..n -> Alphabet] : n \in 0..MaxDocLen}

InitChunker ==
    /\ document \in Documents /\ chunks = <<>> /\ split_done = FALSE
    /\ ServerIdle /\ ClientIdle

\* split_contract_text(document)
SplitContract ==
    /\ ~split_done
    /\ chunks' = split_contract_text(document)
    /\ split_done' = TRUE
    /\ UNCHANGED <<document, server_vars, client_vars>>

NextChunker == SplitContract

SpecChunker == InitChunker /\ [][NextChunker]_vars

\* ------------------------------------------------------------------------
\* api_server.py: the analysis service.

\* MOCK_PLAYBOOK_RULES as Documents: page_content and metadata.clause_title
MOCK_PLAYBOOK_RULES ==
    { [clause_title |-> "Limitation of Liability (LoL)", page_content |-> "Policy: LoL"],
      [clause_title |-> "Data Security & GDPR", page_content |-> "Policy: GDPR"],
      [clause_title |-> "Termination for Convenience", page_content |-> "Policy: TfC"] }

\* setup_playbook_vectorstore(): Chroma.from_documents(playbook_docs, embeddings)
setup_playbook_vectorstore == MOCK_PLAYBOOK_RULES

\* The values of a ClauseAnalysis that matter here.  The schema types risk_level
\* and suggested_redline as str: any string validates, the three levels named
\* in the field's description as well as any other, and the empty string.
ClauseAnalysis ==
    { [risk_level |-> "High", suggested_redline |-> "redline"],
      [risk_level |-> "Critical", suggested_redline |-> "redline"],
      [risk_level |-> "High", suggested_redline |-> ""] }

\* ContractAnalysisResult.flagged_clauses: List[ClauseAnalysis], what
\* with_structured_output(ContractAnalysisResult) can hand back
ContractAnalysisResult == UNION {[1..n -> ClauseAnalysis] : n \in 0..MaxFindings}

\* the contract_text of the requests served
RequestDocuments ==
    { <<>>,
      SAMPLE_CONTRACT_TEXT,
      <<"a", " ", "a", " ", "a", " ", "a">>,
      <<"a", "a", "a", "a", " ", "a", "a", "a", "a", " ", "a", "a", "a", "a">> }

\* str(e) of an exception leaving analyze_contract_core outside the chunk loop
SetupErrors == {"", "model construction failed"}

\* the except branch of the endpoint, with the bare message as detail
HTTPExceptionBare(e) == [status |-> 500, detail |-> e]

\* raise HTTPException(status_code=500, detail=f"Internal Analysis Error: {e}")
HTTPException(e) == [status |-> 500, detail |-> "Internal Analysis Error: " \o e]

\* return result, serialised under response_model=ContractAnalysisResult
OkResponse(result) == [status |-> 200, flagged_clauses |-> result]

\* a vector store that indexes what it is queried with
StoreAfterSearchIndexing(store, query) ==
    store \cup {[clause_title |-> "query", page_content |-> "query"]}

\* vectorstore.similarity_search(query, k=1) reads the store
StoreAfterSearch(store, query) == store

\* extend at the front
extend_front(flagged, new) == new \o flagged

\* all_flagged_clauses.extend(analysis_chunk_result.flagged_clauses)
extend(flagged, new) == flagged \o new

\* an except branch that starts the list again
AfterChunkFailureReset(flagged) == <<>>

\* except Exception as e: print(...): the list is left as it is
AfterChunkFailure(flagged) == flagged

\* a failed chunk submitted again
SameChunk(k) == k

\* the for loop moves to the next chunk, after a success and after a failure
NextChunk(k) == k + 1

\* a call dispatched without waiting for its result
PcDispatched(waiting) == "loop"

\* a call blocks until it returns or raises
PcAfterIssue(waiting) == waiting

Call(kind, k) == [kind |-> kind, chunk |-> k]

Outcome(status, findings) == [status |-> status, findings |-> findings]

\* module import: the API key check, then VECTORSTORE = setup_playbook_vectorstore()
Startup ==
    /\ pc = "off"
    /\ \E key_present \in BOOLEAN :
          IF key_present
          THEN /\ VECTORSTORE' = setup_playbook_vectorstore
               /\ store_builds' = store_builds + 1
               /\ pc' = "idle"
          ELSE /\ pc' = "dead"
               /\ UNCHANGED <<VECTORSTORE, store_builds>>
    /\ UNCHANGED <<served, contract_text, contract_chunks, chunk_index,
                   retrieved_rule_text, all_flagged_clauses, response, calls,
                   inflight, outcome, raised, chunker_vars, client_vars>>

\* POST /analyze, analyze_contract_core up to the loop: the model and the chain
\* are constructed and the text is chunked
AnalyzeBegin ==
    /\ pc = "idle" /\ served < MaxRequests
    /\ \E text \in RequestDocuments :
          /\ contract_text' = text
          /\ contract_chunks' = split_contract_text(text)
    /\ all_flagged_clauses' = <<>>
    /\ chunk_index' = 1
    /\ retrieved_rule_text' = ""
    /\ response' = [status |-> 0]
    /\ calls' = <<>> /\ inflight' = {} /\ outcome' = <<>> /\ raised' = "none"
    /\ pc' = "loop"
    /\ UNCHANGED <<VECTORSTORE, store_builds, served, chunker_vars, client_vars>>

\* POST /analyze where analyze_contract_core raises before the loop: the
\* endpoint's except branch answers
AnalyzeSetupFails ==
    /\ pc = "idle" /\ served < MaxRequests
    /\ \E text \in RequestDocuments, e \in SetupErrors :
          /\ contract_text' = text
          /\ raised' = "setup: " \o e
          /\ response' = HTTPException(e)
    /\ contract_chunks' = <<>>
    /\ all_flagged_clauses' = <<>>
    /\ chunk_index' = 0
    /\ retrieved_rule_text' = ""
    /\ calls' = <<>> /\ inflight' = {} /\ outcome' = <<>>
    /\ served' = served + 1
    /\ pc' = "idle"
    /\ UNCHANGED <<VECTORSTORE, store_builds, chunker_vars, client_vars>>

\* line 121: similarity_search(chunk.page_content, k=1) is issued for the chunk
StartRetrieval ==
    /\ pc = "loop" /\ chunk_index <= Len(contract_chunks)
    /\ calls' = Append(calls, Call("retrieval", chunk_index))
    /\ inflight' = inflight \cup {Call("retrieval", chunk_index)}
    /\ pc' = PcAfterIssue("retrieving")
    /\ UNCHANGED <<VECTORSTORE, store_builds, served, contract_text,
                   contract_chunks, chunk_index, retrieved_rule_text,
                   all_flagged_clauses, response, outcome, raised,
                   chunker_vars, client_vars>>

\* lines 121-122: the search returns the nearest rule, whichever the embedding
\* makes it; retrieved_rule_text = relevant_rules[0].page_content
RetrievalReturns ==
    /\ pc = "retrieving"
    /\ \E rule \in VECTORSTORE : retrieved_rule_text' = rule.page_content
    /\ VECTORSTORE' = StoreAfterSearch(VECTORSTORE, contract_chunks[chunk_index])
    /\ inflight' = inflight \ {Call("retrieval", chunk_index)}
    /\ pc' = "retrieved"
    /\ UNCHANGED <<store_builds, served, contract_text, contract_chunks,
                   chunk_index, all_flagged_clauses, response, calls, outcome,
                   raised, chunker_vars, client_vars>>

\* lines 121-122 raise (the embedding call, the index): caught at line 132
RetrievalFails ==
    /\ pc = "retrieving"
    /\ inflight' = inflight \ {Call("retrieval", chunk_index)}
    /\ all_flagged_clauses' = AfterChunkFailure(all_flagged_clauses)
    /\ outcome' = Append(outcome, Outcome("retrieval_failed", <<>>))
    /\ chunk_index' = NextChunk(chunk_index)
    /\ pc' = "loop"
    /\ UNCHANGED <<VECTORSTORE, store_builds, served, contract_text,
                   contract_chunks, retrieved_rule_text, response, calls,
                   raised, chunker_vars, client_vars>>

\* line 125: chain.invoke is issued with the chunk and the retrieved rule
StartGeneration ==
    /\ pc = "retrieved"
    /\ calls' = Append(calls, Call("generation", chunk_index))
    /\ inflight' = inflight \cup {Call("generation", chunk_index)}
    /\ pc' = PcAfterIssue("generating")
    /\ UNCHANGED <<VECTORSTORE, store_builds, served, contract_text,
                   contract_chunks, chunk_index, retrieved_rule_text,
                   all_flagged_clauses, response, outcome, raised,
                   chunker_vars, client_vars>>

\* lines 125-130: the model answers with an object the schema accepts and its
\* findings are appended
GenerationReturns ==
    /\ pc = "generating"
    /\ \E result \in ContractAnalysisResult :
          /\ all_flagged_clauses' = extend(all_flagged_clauses, result)
          /\ outcome' = Append(outcome, Outcome("ok", result))
    /\ inflight' = inflight \ {Call("generation", chunk_index)}
    /\ chunk_index' = NextChunk(chunk_index)
    /\ retrieved_rule_text' = ""
    /\ pc' = "loop"
    /\ UNCHANGED <<VECTORSTORE, store_builds, served, contract_text,
                   contract_chunks, response, calls, raised, chunker_vars,
                   client_vars>>

\* lines 125-130 raise (the request, the parse of the answer, an answer with
\* no flagged_clauses): caught at line 132
GenerationFails ==
    /\ pc = "generating"
    /\ inflight' = inflight \ {Call("generation", chunk_index)}
    /\ all_flagged_clauses' = AfterChunkFailure(all_flagged_clauses)
    /\ outcome' = Append(outcome, Outcome("generation_failed", <<>>))
    /\ chunk_index' = NextChunk(chunk_index)
    /\ retrieved_rule_text' = ""
    /\ pc' = "loop"
    /\ UNCHANGED <<VECTORSTORE, store_builds, served, contract_text,
                   contract_chunks, response, calls, raised, chunker_vars,
                   client_vars>>

\* line 135 and the endpoint's return: the loop is over
ReturnResult ==
    /\ pc = "loop" /\ chunk_index > Len(contract_chunks)
    /\ response' = OkResponse(all_flagged_clauses)
    /\ served' = served + 1
    /\ pc' = "idle"
    /\ UNCHANGED <<VECTORSTORE, store_builds, contract_text, contract_chunks,
                   chunk_index, retrieved_rule_text, all_flagged_clauses,
                   calls, inflight, outcome, raised, chunker_vars, client_vars>>

Init == ChunkerIdle /\ ServerIdle /\ ClientIdle

Next ==
    \/ Startup
    \/ AnalyzeBegin
    \/ AnalyzeSetupFails
    \/ StartRetrieval
    \/ RetrievalReturns
    \/ RetrievalFails
    \/ StartGeneration
    \/ GenerationReturns
    \/ GenerationFails
    \/ ReturnResult

Spec == Init /\ [][Next]_vars

\* ------------------------------------------------------------------------
\* app.py: the client.  Streamlit runs main() from the top on every
\* interaction; an upload and a click each cause one run.

\* Python's None, and a str value
None == [some |-> FALSE, text |-> <<>>]

Some(text) == [some |-> TRUE, text |-> text]

\* bool(value) of an Optional[str]: None and "" are both false
Truthy(value) == value.some /\ value.text # <<>>

\* what page.extract_text() does on a page
PageKinds == {"text_a", "text_b", "empty", "none", "raises"}

\* page.extract_text() or ""
PageText(kind) ==
    CASE kind = "text_a" -> <<"a">>
      [] kind = "text_b" -> <<"b">>
      [] OTHER -> <<>>

NoFile == [present |-> FALSE, readable |-> FALSE, pages |-> <<>>]

\* what st.file_uploader can hold: nothing, a file PdfReader rejects, or a PDF
\* of up to MaxPages pages
UploadedFiles ==
    {NoFile, [present |-> TRUE, readable |-> FALSE, pages |-> <<>>]}
    \cup {[present |-> TRUE, readable |-> TRUE, pages |-> p] :
            p \in UNION {[1..n -> PageKinds] : n \in 0..MaxPages}}

\* extract_text_from_pdf(pdf_file): the concatenated page texts, None when
\* PdfReader or a page's extract_text raises
extract_text_from_pdf(pdf_file) ==
    IF ~pdf_file.readable \/ \E k \in 1..Len(pdf_file.pages) : pdf_file.pages[k] = "raises"
    THEN None
    ELSE Some(Concat([k \in 1..Len(pdf_file.pages) |-> PageText(pdf_file.pages[k])]))

\* lines 46-50: contract_text = None; if uploaded_file: contract_text = extract...
ContractText(file) == IF file.present THEN extract_text_from_pdf(file) ELSE None

\* line 59: text_to_analyze = contract_text if contract_text else SAMPLE_CONTRACT_TEXT
TextToAnalyze(value) == IF Truthy(value) THEN value.text ELSE SAMPLE_CONTRACT_TEXT

\* what the POST can come to: a 200 with or without findings, another status,
\* no connection, another exception
PostOutcomes == {"200_findings", "200_empty", "500", "connection_error", "exception"}

\* lines 78-118: what the run shows for an outcome of the POST
Display(post) ==
    CASE post = "200_findings" -> "red_flags_table"
      [] post = "200_empty" -> "no_deviations"
      [] post = "500" -> "api_error"
      [] post = "connection_error" -> "connection_error"
      [] OTHER -> "unexpected_error"

\* the user chooses a file, or removes it: main() runs without a click
Upload ==
    /\ \E file \in UploadedFiles :
          /\ file # uploaded_file
          /\ uploaded_file' = file
          /\ extracted_text' = ContractText(file)
          /\ text_to_analyze' = TextToAnalyze(ContractText(file))
    /\ payload' = None
    /\ display' = "none"
    /\ UNCHANGED <<chunker_vars, server_vars>>

\* the user clicks "Start Compliance Scan": main() runs with the button set
StartScan ==
    /\ extracted_text' = ContractText(uploaded_file)
    /\ text_to_analyze' = TextToAnalyze(ContractText(uploaded_file))
    /\ IF text_to_analyze' = <<>>
       THEN payload' = None /\ display' = "warning"
       ELSE /\ payload' = Some(text_to_analyze')
            /\ \E post \in PostOutcomes : display' = Display(post)
    /\ UNCHANGED <<uploaded_file, chunker_vars, server_vars>>

InitClient == ChunkerIdle /\ ServerIdle /\ ClientIdle

NextClient == Upload \/ StartScan

SpecClient == InitClient /\ [][NextClient]_vars

\* ------------------------------------------------------------------------
\* Properties.

\* the three levels a Finding's risk_level is meant to take
RiskLevels == {"High", "Medium", "Low"}

\* analyze_contract_core has returned and the endpoint has answered 200
Returned == pc = "idle" /\ response.status = 200

\* a request has been answered, one way or the other
Answered == pc = "idle" /\ served > 0

Failed(o) == o.status # "ok"

RECURSIVE FindingsOf(_)
\* the findings of a sequence of chunk outcomes, one after the other
FindingsOf(outs) ==
    IF outs = <<>> THEN <<>> ELSE Head(outs).findings \o FindingsOf(Tail(outs))

\* the outcomes of the chunks other than chunk n, in chunk order
OtherChunks(outs, n) ==
    SubSeq(outs, 1, n - 1) \o SubSeq(outs, n + 1, Len(outs))

RECURSIVE CountBefore(_, _)
\* the number of findings of the chunks before chunk k
CountBefore(outs, k) ==
    IF k <= 1 THEN 0 ELSE CountBefore(outs, k - 1) + Len(outs[k - 1].findings)

CallsOf(kind, k) == {c \in DOMAIN calls : calls[c] = Call(kind, k)}

GenerationCalls == {c \in DOMAIN calls : calls[c].kind = "generation"}

\* C1: when retrieval or generation raises for chunk n and for no other chunk,
\* the exception does not leave analyze_contract_core, every chunk is still
\* processed, and the call returns (HTTP 200) the findings of the chunks other
\* than n, in chunk order and then model output order.
C1_FailedChunkIsSkipped ==
    \A n \in 1..Len(outcome) :
        (Failed(outcome[n]) /\ \A m \in 1..Len(outcome) : m # n => ~Failed(outcome[m]))
        => /\ raised = "none"
           /\ response.status # 500
           /\ pc = "loop" => all_flagged_clauses = FindingsOf(OtherChunks(outcome, n))
           /\ Answered =>
                /\ Len(outcome) = Len(contract_chunks)
                /\ response = OkResponse(FindingsOf(OtherChunks(outcome, n)))

\* C1 witness: a three-chunk request answered 200 whose second chunk failed
\* while the first and the third produced findings that differ.
C1_Witness ==
    /\ Returned /\ Len(outcome) = 3
    /\ Failed(outcome[2]) /\ ~Failed(outcome[1]) /\ ~Failed(outcome[3])
    /\ outcome[1].findings # <<>> /\ outcome[3].findings # <<>>
    /\ outcome[1].findings # outcome[3].findings
    /\ Len(response.flagged_clauses) >= 2

C3_ConcatenationInChunkOrder ==
    Returned =>
        /\ Len(outcome) = Len(contract_chunks)
        /\ Len(response.flagged_clauses) = CountBefore(outcome, Len(outcome) + 1)
        /\ \A k \in 1..Len(outcome) : Failed(outcome[k]) => outcome[k].findings = <<>>
        /\ \A k \in 1..Len(outcome) : \A j \in 1..Len(outcome[k].findings) :
              response.flagged_clauses[CountBefore(outcome, k) + j]
                  = outcome[k].findings[j]

\* C3 witness: three chunks all answered, the first with two different findings
\* and the last with a finding that differs from the first chunk's first.
C3_Witness ==
    /\ Returned /\ Len(outcome) = 3
    /\ \A k \in 1..3 : ~Failed(outcome[k])
    /\ Len(outcome[1].findings) = 2
    /\ outcome[1].findings[1] # outcome[1].findings[2]
    /\ Len(outcome[3].findings) = 1
    /\ outcome[3].findings[1] # outcome[1].findings[1]

\* C4 as claimed: when the call returns, the number of generation requests
\* issued equals the number of chunks, whatever the outcome of retrieval or
\* generation.
C4_OneGenerationPerChunk ==
    Returned => Cardinality(GenerationCalls) = Len(contract_chunks)

\* C4 amended: no chunk is ever submitted more than once, to retrieval or to
\* generation; a generation request is issued for a chunk only after its
\* retrieval returned; when the call returns, one retrieval was issued per
\* chunk and one generation per chunk whose retrieval did not raise, whatever
\* the outcome of generation.
C4_OneGenerationPerRetrievedChunk ==
    /\ \A k \in 1..Len(contract_chunks) :
          /\ Cardinality(CallsOf("retrieval", k)) <= 1
          /\ Cardinality(CallsOf("generation", k)) <= 1
          /\ Cardinality(CallsOf("generation", k)) <= Cardinality(CallsOf("retrieval", k))
    /\ \A c \in DOMAIN calls : calls[c].chunk \in 1..Len(contract_chunks)
    /\ Returned =>
          \A k \in 1..Len(contract_chunks) :
              /\ Cardinality(CallsOf("retrieval", k)) = 1
              /\ Cardinality(CallsOf("generation", k))
                    = IF outcome[k].status = "retrieval_failed" THEN 0 ELSE 1

\* C4 witness: a returned three-chunk request with a chunk whose retrieval
\* failed, one whose generation failed and one that was answered.
C4_Witness ==
    /\ Returned /\ Len(outcome) = 3
    /\ \E k \in 1..3 : outcome[k].status = "retrieval_failed"
    /\ \E k \in 1..3 : outcome[k].status = "generation_failed"
    /\ \E k \in 1..3 : outcome[k].status = "ok"
    /\ Cardinality(GenerationCalls) = 2

\* C5: every finding of a 200 answer has a risk_level among High, Medium and
\* Low and a non-empty suggested_redline, for every answer of the model that
\* the structured-output schema accepts.
C5_FindingsWellFormed ==
    Returned =>
        \A k \in 1..Len(response.flagged_clauses) :
            /\ response.flagged_clauses[k].risk_level \in RiskLevels
            /\ response.flagged_clauses[k].suggested_redline # ""

\* C6: every chunk split_contract_text produces is at most chunk_size
\* characters long, for every document.
C6_ChunksWithinChunkSize ==
    split_done => \A k \in 1..Len(chunks) : Len(chunks[k]) <= chunk_size

\* C7 as claimed: a document shorter than chunk_size gives exactly one chunk,
\* equal to the document character for character.
C7_ShortDocumentIsItsOnlyChunk ==
    (split_done /\ Len(document) < chunk_size) => chunks = <<document>>

\* C7 amended: a document shorter than chunk_size gives no chunk when it is
\* empty or all whitespace, and otherwise exactly one chunk, equal to the
\* document with its leading and trailing whitespace removed.
C7_ShortDocumentIsItsOnlyChunkStripped ==
    (split_done /\ Len(document) < chunk_size) =>
        /\ Len(chunks) <= 1
        /\ (\A k \in 1..Len(document) : document[k] \in Whitespace) <=> chunks = <<>>
        /\ \A c \in 1..Len(chunks) :
              /\ chunks[c] # <<>>
              /\ chunks[c][1] \notin Whitespace
              /\ chunks[c][Len(chunks[c])] \notin Whitespace
              /\ \E lead \in 0..Len(document) :
                    /\ \A k \in 1..lead : document[k] \in Whitespace
                    /\ \A k \in (lead + Len(chunks[c]) + 1)..Len(document) :
                          document[k] \in Whitespace
                    /\ lead + Len(chunks[c]) <= Len(document)
                    /\ \A k \in 1..Len(chunks[c]) : chunks[c][k] = document[lead + k]

\* C7 witness: the sample contract, which begins and ends with a newline, has
\* been split into one chunk shorter than itself.
C7_Witness ==
    /\ split_done /\ document = SAMPLE_CONTRACT_TEXT
    /\ Len(document) < chunk_size
    /\ Len(chunks) = 1 /\ Len(chunks[1]) < Len(document)

\* C8: within a request at most one outbound call is in flight; calls are
\* issued in chunk order, for each chunk the retrieval and then (at most) the
\* generation; and a call for a chunk is issued only when every earlier chunk
\* has finished, with its findings appended or its failure caught.
C8_OneChunkAtATime ==
    /\ Cardinality(inflight) <= 1
    /\ \A c \in inflight :
          /\ c = calls[Len(calls)]
          /\ c.chunk = chunk_index
          /\ c.chunk = Len(outcome) + 1
    /\ \A a \in DOMAIN calls : \A b \in DOMAIN calls :
          a < b =>
              /\ calls[a].chunk <= calls[b].chunk
              /\ calls[a].chunk = calls[b].chunk =>
                    calls[a].kind = "retrieval" /\ calls[b].kind = "generation"
    /\ \A b \in DOMAIN calls :
          calls[b].kind = "generation" =>
              b > 1 /\ calls[b - 1] = Call("retrieval", calls[b].chunk)
    /\ calls # <<>> =>
          calls[Len(calls)].chunk \in {Len(outcome), Len(outcome) + 1}

\* C8 witness: the generation call of the second chunk is in flight, after the
\* first chunk's retrieval and generation.
C8_Witness ==
    /\ pc = "generating" /\ chunk_index = 2
    /\ inflight = {Call("generation", 2)}
    /\ Len(calls) = 4 /\ Len(outcome) = 1

C10_SampleOnlyWithoutFileOrOnFailure ==
    payload.some =>
        IF uploaded_file.present /\ extract_text_from_pdf(uploaded_file).some
        THEN payload.text = extract_text_from_pdf(uploaded_file).text
        ELSE payload.text = SAMPLE_CONTRACT_TEXT

====
